---- MODULE Spec2Model ----
(***************************************************************************)
(* cc-video-marker (src/src/main.rs): the Time combinators, the Scene      *)
(* timeline, the parallel frame pipeline of main and the ffmpeg stage.     *)
(*                                                                         *)
(* Numbers.  The program computes with f64.  Here a duration is a whole    *)
(* number of ticks, TicksPerSecond ticks to the second, and a framerate a  *)
(* whole number of frames per second.  A Time scalar of the Scene is kept  *)
(* in units of 1 / (TicksPerSecond * framerate) seconds, in which frame i  *)
(* is the instant i * TicksPerSecond and a duration of d ticks is          *)
(* d * framerate: every sum, difference, minimum and comparison of the     *)
(* source is then exact integer arithmetic.  Floating-point rounding, NaN  *)
(* and infinities are outside the model.                                   *)
(***************************************************************************)
EXTENDS Integers, Sequences, FiniteSets, TLC

\* ---------------------------------------------------------------- bounds
TicksPerSecond == 2
MaxDelay == 2
MaxDur == 1
MaxRate == 2
MaxFrames == 2
NWorkers == 2
MaxT == 3
MaxSteps == 2

VARIABLES
    cfg,              \* the parsed command line: framerate and the six durations
    r,                \* the Renderer built at main.rs:278
    mainPc,           \* where main is
    outcome,          \* how main ended: "none" while it runs
    pending,          \* frame indices of 0..frame_length-1 no worker has taken yet
    wpc,              \* each worker's position inside the map closure
    wframe,           \* the frame index each worker holds (0 while it holds none)
    result,           \* per frame index: what render_frame returned (or a panic)
    saved,            \* frames/NNNNNN.png written so far: file number -> times written
    finished_frames,  \* the AtomicU32 of main.rs:280
    panicked,         \* a map closure has panicked (assert! or a panic in the scene)
    ffmpeg,           \* the external encoder: times spawned, arguments, exit status
    pool,             \* number of worker threads of the rayon pool
    layout,           \* each worker thread's LAYOUT thread-local (main.rs:23-25)
    wdoc,             \* the Tree each worker got from the scene for its frame
    steps,            \* per frame index: the steps render_frame has performed
    png,              \* per file number: the document last saved under it
    reported,         \* the "current" values printed: value -> times printed
    tin,              \* inputs of a Time combinator call
    tout              \* what the call returned and which actions it invoked

vars == <<cfg, r, mainPc, outcome, pending, wpc, wframe, result, saved,
          finished_frames, panicked, ffmpeg, pool, layout, wdoc, steps, png,
          reported, tin, tout>>

pipeVars == <<cfg, r, mainPc, outcome, pending, wpc, wframe, result, saved,
              finished_frames, panicked, ffmpeg, pool, layout, wdoc, steps,
              png, reported>>

timeVars == <<tin, tout>>

Workers == 1..NWorkers

Min(a, b) == IF a <= b THEN a ELSE b

\* ------------------------------------------------------------ Time algebra
\* A callback is a value: a leaf action of the Scene, the closure
\* |time| { time.until(dt, f); } of until_during, or the closure handed to
\* during(sustain, ...) that animates the symbols.  call(f, time) runs it and
\* yields the leaf invocations it made, in order.
RECURSIVE call(_, _)

Leaf(name) == [kind |-> "leaf", name |-> name]

\* wait that consumes nothing.
wait_noop(self, t0) == self

\* wait that moves the origin the wrong way.
wait_add(self, t0) == self + t0

wait(self, t0) == self - t0

\* until that hands the action the unclamped instant.
until_noclamp(self, dt, f) ==
    [ret |-> self, calls |-> IF 0 <= self THEN call(f, self) ELSE <<>>]

\* until that runs the action whether or not the window has started.
until_always(self, dt, f) ==
    [ret |-> self, calls |-> call(f, Min(self, dt))]

until(self, dt, f) ==
    [ret |-> self,
     calls |-> IF 0 <= self THEN call(f, Min(self, dt)) ELSE <<>>]

\* during that treats the instant 0 as not yet started.
during_strict(self, t, f) ==
    [ret |-> wait(self, t),
     calls |-> IF 0 < self THEN call(f, self) ELSE <<>>]

during(self, t, f) ==
    [ret |-> wait(self, t),
     calls |-> IF 0 <= self THEN call(f, self) ELSE <<>>]

\* until_during with the clamp and the window duration exchanged.
until_during_swapped(self, dt, t, f) ==
    during(self, dt, [kind |-> "until", dt |-> t, f |-> f])

until_during(self, dt, t, f) ==
    during(self, t, [kind |-> "until", dt |-> dt, f |-> f])

symbols(time, entry, interval) ==
    LET cc == until_during(time, entry, interval, Leaf("cc"))
        by == until_during(cc.ret, entry, interval, Leaf("by"))
        sa == until_during(by.ret, entry, interval, Leaf("sa"))
        text == until(sa.ret, entry, Leaf("text"))
    IN  cc.calls \o by.calls \o sa.calls \o text.calls

call(f, time) ==
    CASE f.kind = "leaf" -> <<[action |-> f.name, time |-> time]>>
      [] f.kind = "until" -> until(time, f.dt, f.f).calls
      [] f.kind = "symbols" -> symbols(time, f.entry, f.interval)

\* ------------------------------------------------------------------ Scene
\* fade_in and slide_in are unimplemented!(): a call panics (main.rs:65-73).
fade_in == "panic"

slide_in == "panic"

\* The body of a leaf action: "cc" calls fade_in then slide_in, the other
\* leaves are empty blocks (main.rs:255-273).
LeafPanics(name) == name = "cc" /\ (fade_in = "panic" \/ slide_in = "panic")

\* The leaf invocations up to and including the first one that panics.
RECURSIVE Unwind(_)
Unwind(calls) ==
    IF calls = <<>> THEN <<>>
    ELSE IF LeafPanics(Head(calls).action) THEN <<Head(calls)>>
    ELSE <<Head(calls)>> \o Unwind(Tail(calls))

\* A duration of d ticks in Time units of 1 / (c.ticks * framerate) s, the
\* durations of configuration c being written in ticks of 1 / c.ticks s.
Dur(c, d) == d * c.framerate

\* Time((frame_time as f64) / framerate) in the same units.
FrameTime(c, frame_time) == frame_time * c.ticks

\* The chain of main.rs:252-274, every leaf run to completion.
SceneChain(c, frame_time) ==
    LET t0 == wait(FrameTime(c, frame_time), Dur(c, c.delay))
        sus == during(t0, Dur(c, c.sustain),
                      [kind |-> "symbols", entry |-> Dur(c, c.entry),
                       interval |-> Dur(c, c.interval)])
        fad == until_during(sus.ret, Dur(c, c.fade), Dur(c, c.fade), Leaf("fade"))
    IN  [ret |-> wait(fad.ret, Dur(c, c.leave)), calls |-> sus.calls \o fad.calls]

\* The scene closure: the leaf invocations made before it returned or panicked.
scene(c, frame_time) ==
    LET all == SceneChain(c, frame_time).calls
    IN  [calls |-> Unwind(all),
         panic |-> \E k \in 1..Len(all) : LeafPanics(all[k].action)]

\* --------------------------------------------------------------- Renderer
\* length = delay + sustain + fade + leave (main.rs:247), in ticks.
length(c) == c.delay + c.sustain + c.fade + c.leave

\* (length * framerate) as u32 (main.rs:278): the cast truncates toward zero.
\* (It also saturates at u32::MAX, far beyond the bounds here.)
FrameLength(c) == (length(c) * c.framerate) \div c.ticks

Renderer_new(c) ==
    [resolution |-> c.resolution, framerate |-> c.framerate,
     frame_length |-> FrameLength(c)]

\* The file number without the offset of one.
FileNumber_zero_based(frame_time) == frame_time

\* frames/{:06}.png of frame_time + 1 (main.rs:133).
FileNumber(frame_time) == frame_time + 1

Durations == 0..MaxDur

\* Resolution from (u32, u32) (main.rs:81-88).
Resolution(width, height) == [width |-> width, height |-> height]

Resolutions == {Resolution(100, 100)}

Configs ==
    {c \in [resolution : Resolutions, ticks : {TicksPerSecond},
            framerate : 1..MaxRate, delay : 0..MaxDelay, interval : Durations,
            entry : Durations, sustain : Durations, fade : Durations,
            leave : Durations] : FrameLength(c) <= MaxFrames}

NoInput == [x |-> 0, dt |-> 0, t |-> 0, t2 |-> 0]

NoCall == [op |-> "none", ret |-> 0, calls |-> <<>>]

\* The frames directory as this run fills it: file number -> times written.
Write(dir, n) ==
    IF n \in DOMAIN dir THEN [dir EXCEPT ![n] = @ + 1] ELSE dir @@ (n :> 1)

\* ---------------------------------------------------- LAYOUT and the Tree
\* load_svg("layout.svg") (main.rs:17-21): the template document.
load_svg == "layout.svg"

\* A thread-local that is never initialised on the thread that reads it.
LayoutCell_uninit(cell) == cell

\* The value a thread's LAYOUT holds when the thread touches it: the
\* thread_local! initialiser runs on the first access (main.rs:23-25).
LayoutCell(cell) == IF cell = "uninit" THEN load_svg ELSE cell

\* clone_rc that moves the template out of the thread-local instead of
\* cloning it.
clone_rc_take(cell) == [value |-> cell, cell |-> "taken"]

\* clone_rc (main.rs:29-34): x.with(|f| f.borrow().clone()); the cell is only
\* borrowed, its value is what it was.
clone_rc(cell) == [value |-> cell, cell |-> cell]

\* The Tree the scene closure returns: the clone it started from and the leaf
\* actions that ran on it.
Tree(base, calls) == [base |-> base, calls |-> calls]

\* A worker that has not called the scene yet holds no Tree.
NoTree == [base |-> "none", calls |-> <<>>]

\* The steps of render_frame in program order (main.rs:123-134).
StepOrder == <<"scene", "pixmap", "svg", "save">>

\* One step of render_frame as performed, and whether it succeeded.
Step(name, ok) == [step |-> name, ok |-> ok]

\* print!("\rRendering video frames ({}/{})", i + 1, r.frame_length)
\* (main.rs:283): the "current" value printed for fetch_add's result i.
Current(i) == i + 1

\* The argument list of main.rs:140-159; to_string and format! of whole
\* numbers print their decimal digits.
FfmpegArgs(rr) ==
    <<"-framerate", ToString(rr.framerate),
      "-s", ToString(rr.resolution.width) \o "x" \o ToString(rr.resolution.height),
      "-i", "frames/%06d.png", "-y", "-vcodec", "libx264", "-crf", "15",
      "-pix_fmt", "yuv420p", "video.mp4">>

\* resolution=100x100, framerate=10, delay=0, interval=0.1, entry=0.1,
\* sustain=0.5, fade=0.1, leave=0, the durations in tenths of a second.
EndToEndConfig ==
    [resolution |-> Resolution(100, 100), ticks |-> 10, framerate |-> 10,
     delay |-> 0, interval |-> 1, entry |-> 1, sustain |-> 5, fade |-> 1,
     leave |-> 0]

\* ------------------------------------------------------------------- main
Init ==
    /\ cfg \in Configs \cup {EndToEndConfig}
    /\ r = Renderer_new(cfg)
    /\ mainPc = "create_dir"
    /\ outcome = "none"
    /\ pending = {}
    /\ wpc = [w \in Workers |-> "idle"]
    /\ wframe = [w \in Workers |-> 0]
    /\ result = [i \in 0..(r.frame_length - 1) |-> "none"]
    /\ saved = <<>>
    /\ finished_frames = 0
    /\ panicked = FALSE
    /\ ffmpeg = [spawned |-> 0, exit |-> -1, args |-> <<>>]
    /\ pool \in Workers
    /\ layout = [w \in Workers |-> "uninit"]
    /\ wdoc = [w \in Workers |-> NoTree]
    /\ steps = [i \in 0..(r.frame_length - 1) |-> <<>>]
    /\ png = <<>>
    /\ reported = <<>>
    /\ tin = NoInput
    /\ tout = NoCall

\* std::fs::create_dir_all("frames").expect(..) (main.rs:287), then the
\* parallel iterator over 0..r.frame_length is handed to the pool.
CreateDir ==
    /\ mainPc = "create_dir"
    /\ \E ok \in BOOLEAN :
         IF ok
         THEN /\ mainPc' = "frames"
              /\ pending' = 0..(r.frame_length - 1)
              /\ outcome' = outcome
         ELSE /\ mainPc' = "done"
              /\ outcome' = "Panic"
              /\ pending' = pending
    /\ UNCHANGED <<cfg, r, wpc, wframe, result, saved, finished_frames,
                   panicked, ffmpeg, pool, layout, wdoc, steps, png, reported,
                   tin, tout>>

\* The map closure of worker w has returned or unwound: its frame index and
\* its Tree are gone (main.rs:290-294).
Release(w) ==
    /\ wpc' = [wpc EXCEPT ![w] = "idle"]
    /\ wframe' = [wframe EXCEPT ![w] = 0]
    /\ wdoc' = [wdoc EXCEPT ![w] = NoTree]

\* A worker goes on inside render_frame, to the step at `next`.
Goto(w, next) ==
    /\ wpc' = [wpc EXCEPT ![w] = next]
    /\ UNCHANGED <<wframe, wdoc>>

\* A failed frame that is recorded but does not panic the closure.
Fail_noassert(w, i, kind) ==
    /\ result' = [result EXCEPT ![i] = kind]
    /\ panicked' = panicked
    /\ Release(w)

\* A failed step of render_frame returns Err through `?`; the closure's
\* assert!(f.is_ok()) then panics (main.rs:291-292).  A panic inside the
\* scene unwinds through render_frame to the same place.
Fail(w, i, kind) ==
    /\ result' = [result EXCEPT ![i] = kind]
    /\ panicked' = TRUE
    /\ Release(w)

\* A worker takes an index nobody has taken and calls render_frame, whose
\* first statement evaluates the scene (main.rs:123): the scene clones the
\* thread's LAYOUT and runs the timeline on the clone (main.rs:250-276).
Take(w) ==
    /\ mainPc = "frames"
    /\ w <= pool
    /\ wpc[w] = "idle"
    /\ \E i \in pending :
         LET cl == clone_rc(LayoutCell(layout[w]))
             sc == scene(cfg, i)
         IN  /\ pending' = pending \ {i}
             /\ layout' = [layout EXCEPT ![w] = cl.cell]
             /\ steps' = [steps EXCEPT ![i] = Append(@, Step("scene", ~sc.panic))]
             /\ IF sc.panic
                THEN Fail(w, i, "Panic")
                ELSE /\ wpc' = [wpc EXCEPT ![w] = "pixmap"]
                     /\ wframe' = [wframe EXCEPT ![w] = i]
                     /\ wdoc' = [wdoc EXCEPT ![w] = Tree(cl.value, sc.calls)]
                     /\ UNCHANGED <<result, panicked>>
    /\ UNCHANGED <<cfg, r, mainPc, outcome, saved, finished_frames, ffmpeg,
                   pool, png, reported, tin, tout>>

\* Pixmap::new(..).ok_or(FrameError::NewPixmap)? (main.rs:124-125).
NewPixmap(w) ==
    /\ wpc[w] = "pixmap"
    /\ \E ok \in BOOLEAN :
         /\ steps' = [steps EXCEPT ![wframe[w]] = Append(@, Step("pixmap", ok))]
         /\ IF ok
            THEN /\ Goto(w, "svg")
                 /\ UNCHANGED <<result, panicked>>
            ELSE Fail(w, wframe[w], "NewPixmap")
    /\ UNCHANGED <<cfg, r, mainPc, outcome, pending, saved,
                   finished_frames, ffmpeg, pool, layout, png, reported,
                   tin, tout>>

\* render_frame that notes a rasterization failure and goes on to save the
\* buffer instead of returning.
RenderSVG_no_return(w) ==
    /\ wpc[w] = "svg"
    /\ Goto(w, "save")
    /\ \E ok \in BOOLEAN :
         /\ steps' = [steps EXCEPT ![wframe[w]] = Append(@, Step("svg", ok))]
         /\ IF ok
            THEN UNCHANGED <<result, panicked>>
            ELSE /\ result' = [result EXCEPT ![wframe[w]] = "RenderSVG"]
                 /\ panicked' = TRUE
    /\ UNCHANGED <<cfg, r, mainPc, outcome, pending, saved,
                   finished_frames, ffmpeg, pool, layout, png, reported,
                   tin, tout>>

\* resvg::render(..).ok_or(FrameError::RenderSVG)? (main.rs:126-131).
RenderSVG(w) ==
    /\ wpc[w] = "svg"
    /\ \E ok \in BOOLEAN :
         /\ steps' = [steps EXCEPT ![wframe[w]] = Append(@, Step("svg", ok))]
         /\ IF ok
            THEN /\ Goto(w, "save")
                 /\ UNCHANGED <<result, panicked>>
            ELSE Fail(w, wframe[w], "RenderSVG")
    /\ UNCHANGED <<cfg, r, mainPc, outcome, pending, saved,
                   finished_frames, ffmpeg, pool, layout, png, reported,
                   tin, tout>>

\* A map closure that counts the frame whether or not save_png succeeded.
SavePng_counted(w) ==
    /\ wpc[w] = "save"
    /\ \E ok \in BOOLEAN :
         /\ steps' = [steps EXCEPT ![wframe[w]] = Append(@, Step("save", ok))]
         /\ IF ok
            THEN /\ saved' = Write(saved, FileNumber(wframe[w]))
                 /\ png' = (FileNumber(wframe[w]) :> wdoc[w]) @@ png
                 /\ result' = [result EXCEPT ![wframe[w]] = "Ok"]
            ELSE /\ result' = [result EXCEPT ![wframe[w]] = "SavePng"]
                 /\ UNCHANGED <<saved, png>>
         /\ Goto(w, "progress")
         /\ UNCHANGED panicked
    /\ UNCHANGED <<cfg, r, mainPc, outcome, pending,
                   finished_frames, ffmpeg, pool, layout, reported,
                   tin, tout>>

\* pixmap.save_png(..).map_err(|_| FrameError::SavePng)?; Ok(())
\* (main.rs:132-135).
SavePng(w) ==
    /\ wpc[w] = "save"
    /\ \E ok \in BOOLEAN :
         /\ steps' = [steps EXCEPT ![wframe[w]] = Append(@, Step("save", ok))]
         /\ IF ok
            THEN /\ saved' = Write(saved, FileNumber(wframe[w]))
                 /\ png' = (FileNumber(wframe[w]) :> wdoc[w]) @@ png
                 /\ result' = [result EXCEPT ![wframe[w]] = "Ok"]
                 /\ Goto(w, "progress")
                 /\ UNCHANGED panicked
            ELSE /\ Fail(w, wframe[w], "SavePng")
                 /\ UNCHANGED <<saved, png>>
    /\ UNCHANGED <<cfg, r, mainPc, outcome, pending,
                   finished_frames, ffmpeg, pool, layout, reported,
                   tin, tout>>

\* make_progress with a load and a store in place of fetch_add: the store of
\* a worker racing with another one is overwritten.
make_progress_racy(w) ==
    /\ wpc[w] = "progress"
    /\ finished_frames' =
         IF \E v \in Workers \ {w} : wpc[v] = "progress"
         THEN finished_frames
         ELSE finished_frames + 1
    /\ reported' = Write(reported, Current(finished_frames))
    /\ Release(w)
    /\ UNCHANGED <<cfg, r, mainPc, outcome, pending, result, saved,
                   panicked, ffmpeg, pool, layout, steps, png, tin, tout>>

\* make_progress(): finished_frames.fetch_add(1, Relaxed), then the print of
\* i + 1 (main.rs:281-285).  fetch_add is one atomic read-modify-write; it
\* cannot wrap, frame_length being a u32.
make_progress(w) ==
    /\ wpc[w] = "progress"
    /\ finished_frames' = finished_frames + 1
    /\ reported' = Write(reported, Current(finished_frames))
    /\ Release(w)
    /\ UNCHANGED <<cfg, r, mainPc, outcome, pending, result, saved,
                   panicked, ffmpeg, pool, layout, steps, png, tin, tout>>

AllIdle == \A w \in Workers : wpc[w] = "idle"

\* collect() that returns without waiting for the closures in flight or for
\* the indices not yet taken.
Collect_early ==
    /\ mainPc = "frames"
    /\ ~panicked
    /\ mainPc' = "spawn"
    /\ UNCHANGED <<cfg, r, outcome, pending, wpc, wframe, result, saved,
                   finished_frames, panicked, ffmpeg, pool, layout, wdoc,
                   steps, png, reported, tin, tout>>

\* collect() returns: every index was mapped and no closure panicked
\* (main.rs:295-298).
Collect ==
    /\ mainPc = "frames"
    /\ pending = {}
    /\ AllIdle
    /\ ~panicked
    /\ mainPc' = "spawn"
    /\ UNCHANGED <<cfg, r, outcome, pending, wpc, wframe, result, saved,
                   finished_frames, panicked, ffmpeg, pool, layout, wdoc,
                   steps, png, reported, tin, tout>>

\* A closure panicked: the pool hands the panic to main once the closures in
\* flight have returned; indices not yet taken may or may not still be mapped.
Propagate ==
    /\ mainPc = "frames"
    /\ panicked
    /\ AllIdle
    /\ mainPc' = "done"
    /\ outcome' = "Panic"
    /\ UNCHANGED <<cfg, r, pending, wpc, wframe, result, saved,
                   finished_frames, panicked, ffmpeg, pool, layout, wdoc,
                   steps, png, reported, tin, tout>>

\* Command::new("ffmpeg").args(..).spawn().map_err(|_| ())? (main.rs:139-161).
Spawn ==
    /\ mainPc = "spawn"
    /\ \E ok \in BOOLEAN :
         IF ok
         THEN /\ ffmpeg' = [ffmpeg EXCEPT !.spawned = @ + 1,
                                          !.args = FfmpegArgs(r)]
              /\ mainPc' = "wait"
              /\ outcome' = outcome
         ELSE /\ mainPc' = "done"
              /\ outcome' = "Err"
              /\ ffmpeg' = ffmpeg
    /\ UNCHANGED <<cfg, r, pending, wpc, wframe, result, saved,
                   finished_frames, panicked, pool, layout, wdoc, steps, png,
                   reported, tin, tout>>

ExitCodes == {0, 1}

\* .wait().map_err(|_| ())?; Ok(()) (main.rs:162-164): the ExitStatus that
\* wait() returns is dropped.
Wait ==
    /\ mainPc = "wait"
    /\ \/ /\ outcome' = "Err"
          /\ ffmpeg' = ffmpeg
       \/ \E code \in ExitCodes :
            /\ ffmpeg' = [ffmpeg EXCEPT !.exit = code]
            /\ outcome' = "Ok"
    /\ mainPc' = "done"
    /\ UNCHANGED <<cfg, r, pending, wpc, wframe, result, saved,
                   finished_frames, panicked, pool, layout, wdoc, steps, png,
                   reported, tin, tout>>

Next ==
    \/ CreateDir
    \/ \E w \in Workers : Take(w)
    \/ \E w \in Workers : NewPixmap(w)
    \/ \E w \in Workers : RenderSVG(w)
    \/ \E w \in Workers : SavePng(w)
    \/ \E w \in Workers : make_progress(w)
    \/ Collect
    \/ Propagate
    \/ Spawn
    \/ Wait

Spec == Init /\ [][Next]_vars

\* ------------------------------------------------- Time combinators alone
\* A combinator is called once on inputs drawn from a bounded range; the
\* action handed to it is the leaf "f" (or "a" and "b" for a chain), which
\* records the Time it observes.
TimeInputs == [x : (-MaxT)..MaxT, dt : 0..MaxT, t : 0..MaxT, t2 : 0..MaxT]

ZeroConfig ==
    [resolution |-> Resolution(100, 100), ticks |-> TicksPerSecond,
     framerate |-> 1, delay |-> 0, interval |-> 0, entry |-> 0, sustain |-> 0,
     fade |-> 0, leave |-> 0]

InitTime ==
    /\ tin \in TimeInputs
    /\ tout = NoCall
    /\ cfg = ZeroConfig
    /\ r = Renderer_new(cfg)
    /\ mainPc = "create_dir"
    /\ outcome = "none"
    /\ pending = {}
    /\ wpc = [w \in Workers |-> "idle"]
    /\ wframe = [w \in Workers |-> 0]
    /\ result = <<>>
    /\ saved = <<>>
    /\ finished_frames = 0
    /\ panicked = FALSE
    /\ ffmpeg = [spawned |-> 0, exit |-> -1, args |-> <<>>]
    /\ pool = NWorkers
    /\ layout = [w \in Workers |-> "uninit"]
    /\ wdoc = [w \in Workers |-> NoTree]
    /\ steps = <<>>
    /\ png = <<>>
    /\ reported = <<>>

Returned(op, ret, calls) == [op |-> op, ret |-> ret, calls |-> calls]

CallWait ==
    /\ tout.op = "none"
    /\ tout' = Returned("wait", wait(tin.x, tin.dt), <<>>)
    /\ UNCHANGED <<tin, pipeVars>>

CallUntil ==
    /\ tout.op = "none"
    /\ LET u == until(tin.x, tin.dt, Leaf("f"))
       IN  tout' = Returned("until", u.ret, u.calls)
    /\ UNCHANGED <<tin, pipeVars>>

CallDuring ==
    /\ tout.op = "none"
    /\ LET d == during(tin.x, tin.t, Leaf("f"))
       IN  tout' = Returned("during", d.ret, d.calls)
    /\ UNCHANGED <<tin, pipeVars>>

CallUntilDuring ==
    /\ tout.op = "none"
    /\ LET d == until_during(tin.x, tin.dt, tin.t, Leaf("f"))
       IN  tout' = Returned("until_during", d.ret, d.calls)
    /\ UNCHANGED <<tin, pipeVars>>

\* Time(x).during(t, a).during(t2, b)
CallChain ==
    /\ tout.op = "none"
    /\ LET a == during(tin.x, tin.t, Leaf("a"))
           b == during(a.ret, tin.t2, Leaf("b"))
       IN  tout' = Returned("chain", b.ret, a.calls \o b.calls)
    /\ UNCHANGED <<tin, pipeVars>>

NextTime ==
    \/ CallWait
    \/ CallUntil
    \/ CallDuring
    \/ CallUntilDuring
    \/ CallChain

SpecTime == InitTime /\ [][NextTime]_vars

\* ------------------------------------------------------- the Scene alone
\* The scene closure is called once, for a frame index and a configuration
\* drawn from the bounded ranges (no limit on the frame count here).
SceneConfigs ==
    [resolution : Resolutions, ticks : {TicksPerSecond},
     framerate : 1..MaxRate, delay : 0..MaxDelay, interval : Durations,
     entry : Durations, sustain : Durations, fade : Durations,
     leave : Durations]

\* time.0 / entry (main.rs:258-259), as the fraction num / den; f64 division
\* by a zero entry yields NaN (0.0 / 0.0) or an infinity, not an error.
Progress(c, time) == [num |-> time, den |-> Dur(c, c.entry)]

\* The effect mutators the leaf actions called, with their progress argument:
\* the cc action calls fade_in, which panics before slide_in is reached.
Effects(c, calls) ==
    [k \in 1..Len(SelectSeq(calls, LAMBDA l : l.action = "cc")) |->
        [effect |-> "fade_in",
         t |-> Progress(c, SelectSeq(calls, LAMBDA l : l.action = "cc")[k].time)]]

IdlePipeline ==
    /\ r = Renderer_new(cfg)
    /\ mainPc = "create_dir"
    /\ outcome = "none"
    /\ pending = {}
    /\ wpc = [w \in Workers |-> "idle"]
    /\ wframe = [w \in Workers |-> 0]
    /\ result = <<>>
    /\ saved = <<>>
    /\ finished_frames = 0
    /\ panicked = FALSE
    /\ ffmpeg = [spawned |-> 0, exit |-> -1, args |-> <<>>]
    /\ pool = NWorkers
    /\ layout = [w \in Workers |-> "uninit"]
    /\ wdoc = [w \in Workers |-> NoTree]
    /\ steps = <<>>
    /\ png = <<>>
    /\ reported = <<>>

InitScene ==
    /\ cfg \in SceneConfigs
    /\ tin \in [x : 0..(MaxFrames + 1), dt : {0}, t : {0}, t2 : {0}]
    /\ tout = NoCall
    /\ IdlePipeline

CallScene ==
    /\ tout.op = "none"
    /\ LET sc == scene(cfg, tin.x)
       IN  tout' = [op |-> "scene", ret |-> SceneChain(cfg, tin.x).ret,
                    calls |-> sc.calls, panic |-> sc.panic,
                    effects |-> Effects(cfg, sc.calls)]
    /\ UNCHANGED <<tin, pipeVars>>

NextScene == CallScene

SpecScene == InitScene /\ [][NextScene]_vars

\* --------------------------------------------- chains of Time combinators
\* Starting from Time(x), up to MaxSteps combinators are applied one after
\* the other, each to the Time the previous one returned.  consumed adds up
\* the durations of the waits and of the during / until_during windows.
InitChain ==
    /\ cfg = ZeroConfig
    /\ tin \in [x : (-MaxT)..MaxT, dt : {0}, t : {0}, t2 : {0}]
    /\ tout = [op |-> "none", ret |-> tin.x, calls |-> <<>>, consumed |-> 0,
               n |-> 0, invoked |-> 0]
    /\ IdlePipeline

Chained(op, res, used) ==
    [op |-> op, ret |-> res.ret, calls |-> res.calls,
     consumed |-> tout.consumed + used, n |-> tout.n + 1,
     invoked |-> tout.invoked + Len(res.calls)]

ChainWait ==
    /\ tout.n < MaxSteps
    /\ \E dt \in 0..MaxT :
         tout' = Chained("wait", [ret |-> wait(tout.ret, dt), calls |-> <<>>], dt)
    /\ UNCHANGED <<tin, pipeVars>>

ChainUntil ==
    /\ tout.n < MaxSteps
    /\ \E dt \in 0..MaxT :
         tout' = Chained("until", until(tout.ret, dt, Leaf("f")), 0)
    /\ UNCHANGED <<tin, pipeVars>>

ChainDuring ==
    /\ tout.n < MaxSteps
    /\ \E t \in 0..MaxT :
         tout' = Chained("during", during(tout.ret, t, Leaf("f")), t)
    /\ UNCHANGED <<tin, pipeVars>>

ChainUntilDuring ==
    /\ tout.n < MaxSteps
    /\ \E dt, t \in 0..MaxT :
         tout' = Chained("until_during",
                         until_during(tout.ret, dt, t, Leaf("f")), t)
    /\ UNCHANGED <<tin, pipeVars>>

NextChain ==
    \/ ChainWait
    \/ ChainUntil
    \/ ChainDuring
    \/ ChainUntilDuring

SpecChain == InitChain /\ [][NextChain]_vars

\* ------------------------------------------------------------- properties
\* main has reached r.render() (main.rs:299).
RenderCalled == mainPc \in {"spawn", "wait"} \/ outcome \in {"Ok", "Err"}

FrameIndices == 0..(r.frame_length - 1)

FrameFailed == \E i \in DOMAIN result : result[i] \notin {"none", "Ok"}

Obs(name, v) == <<[action |-> name, time |-> v]>>

Invoked(name) == \E k \in 1..Len(tout.calls) : tout.calls[k].action = name

CeilDiv(a, b) == (a + b - 1) \div b

\* C1: in every reachable state, if the encoder stage has started then every
\* frame index in [0, frame_length) has returned Ok from render_frame and its
\* file is in the frames directory, no index is left untaken and no worker is
\* still inside a frame.
C1_EncoderAfterAllFrames ==
    RenderCalled =>
        /\ \A i \in FrameIndices : result[i] = "Ok" /\ (i + 1) \in DOMAIN saved
        /\ pending = {}
        /\ AllIdle

C1_Witness == ffmpeg.spawned = 1 /\ r.frame_length = 2 /\ DOMAIN saved = {1, 2}

\* C2: once render_frame has failed for any frame index (NewPixmap, RenderSVG,
\* SavePng, or a panic inside the scene), the encoder stage is not reached and
\* the encoder is never spawned, and when main has ended it has ended by the
\* panic, whatever the other frames did.
C2_FrameFailureIsFatal ==
    FrameFailed =>
        /\ ~RenderCalled
        /\ ffmpeg.spawned = 0
        /\ (mainPc = "done" => outcome = "Panic")

C2_Witness ==
    /\ mainPc = "done"
    /\ \E i, j \in DOMAIN result : result[i] = "RenderSVG" /\ result[j] = "Ok"

\* C3: Renderer::render returns Ok only when the process was launched and
\* exited with code 0.
C3_OkOnlyOnExitZero == outcome = "Ok" => ffmpeg.spawned = 1 /\ ffmpeg.exit = 0

\* C4: during(t, f) invokes f exactly once with Time(x) when x >= 0 and never
\* when x < 0, and returns Time(x - t) in both cases.
C4_During ==
    tout.op = "during" =>
        /\ tout.ret = tin.x - tin.t
        /\ tout.calls = IF tin.x >= 0 THEN Obs("f", tin.x) ELSE <<>>

C4_Witness ==
    tout.op = "during" /\ tin.x = 0 /\ tin.t > 0 /\ Len(tout.calls) = 1

\* C5: for x >= 0, until(dt, f) invokes f exactly once with Time(min(x, dt)),
\* a value that never exceeds dt and is dt whenever x > dt; until returns
\* Time(x) unchanged whether or not f was invoked.
C5_Until ==
    tout.op = "until" =>
        /\ tout.ret = tin.x
        /\ tin.x >= 0 =>
             /\ tout.calls = Obs("f", IF tin.x > tin.dt THEN tin.dt ELSE tin.x)
             /\ tout.calls[1].time <= tin.dt

C5_Witness ==
    tout.op = "until" /\ tin.x > tin.dt /\ tout.calls = Obs("f", tin.dt)

\* C6 as stated: for every x <= 0, x = 0 included, until(dt, f) does not
\* invoke f.
C6_NotInvokedAtOrBelowZero ==
    tout.op = "until" /\ tin.x <= 0 => tout.calls = <<>>

\* C6, amended: for every x < 0 until(dt, f) does not invoke f; at x = 0 it
\* invokes f once with Time(0).
C6_NotInvokedBelowZero ==
    tout.op = "until" =>
        /\ tin.x < 0 => tout.calls = <<>>
        /\ tin.x = 0 => tout.calls = Obs("f", 0)

C6_Witness == tout.op = "until" /\ tin.x < 0 /\ tin.dt > 0 /\ tout.calls = <<>>

\* C7: until_during(dt, t, action) does what during(t, |time| time.until(dt,
\* action)) does: the Time that during hands its closure, passed on to until,
\* gives the same invocations, namely one with Time(min(x, dt)) exactly when
\* x >= 0, and the same Time(x - t) is returned.
C7_UntilDuring ==
    tout.op = "until_during" =>
        LET outer == during(tin.x, tin.t, Leaf("closure"))
            inner == IF outer.calls = <<>> THEN <<>>
                     ELSE until(outer.calls[1].time, tin.dt, Leaf("f")).calls
        IN  /\ tout.calls = inner
            /\ tout.ret = outer.ret
            /\ tout.calls = IF tin.x >= 0
                            THEN Obs("f", IF tin.x > tin.dt THEN tin.dt ELSE tin.x)
                            ELSE <<>>
            /\ tout.ret = tin.x - tin.t

C7_Witness ==
    /\ tout.op = "until_during"
    /\ tin.x > tin.dt
    /\ tin.dt # tin.t
    /\ tout.calls = Obs("f", tin.dt)

\* C8 as stated: in Time(x).during(t1, a).during(t2, b) with t1, t2 > 0 there
\* is no instant x at which both a and b are invoked.
C8_NoOverlap ==
    tout.op = "chain" /\ tin.t > 0 /\ tin.t2 > 0 => ~(Invoked("a") /\ Invoked("b"))

\* C8, amended: in Time(x).during(t1, a).during(t2, b), a is invoked exactly
\* when x >= 0 (observing x) and b exactly when x >= t1 (observing x - t1): b
\* is never invoked before a's window has elapsed, but a window's action is
\* still invoked after its own interval has ended, so both are invoked at
\* every x >= t1.
C8_WindowsStartInSequence ==
    tout.op = "chain" =>
        /\ Invoked("a") <=> tin.x >= 0
        /\ Invoked("b") <=> tin.x >= tin.t
        /\ tout.calls = (IF tin.x >= 0 THEN Obs("a", tin.x) ELSE <<>>)
                        \o (IF tin.x >= tin.t THEN Obs("b", tin.x - tin.t) ELSE <<>>)
        /\ tout.ret = tin.x - tin.t - tin.t2

C8_Witness ==
    /\ tout.op = "chain"
    /\ tin.t > 0
    /\ tin.t2 > 0
    /\ tin.x >= tin.t
    /\ Invoked("a")
    /\ Invoked("b")

\* C9: Renderer.frame_length equals ceil(total duration * framerate), the
\* total duration being delay + sustain + fade + leave (interval and entry
\* lie inside the sustain window).
C9_FrameLengthIsCeil ==
    r.frame_length = CeilDiv(length(cfg) * cfg.framerate, cfg.ticks)

\* C10: frame index i is written to file number i + 1 and nowhere else, no
\* file number is written twice and no two workers hold the same index, under
\* every interleaving; once the frame stage has succeeded the files written
\* are exactly 1..frame_length, each written once.
C10_FilesContiguous ==
    /\ \A n \in DOMAIN saved : saved[n] = 1
    /\ DOMAIN saved = {i + 1 : i \in {j \in FrameIndices : result[j] = "Ok"}}
    /\ \A v, w \in Workers :
         v # w /\ wpc[v] # "idle" /\ wpc[w] # "idle" => wframe[v] # wframe[w]
    /\ RenderCalled => DOMAIN saved = 1..r.frame_length

C10_Witness ==
    /\ outcome = "Ok"
    /\ r.frame_length = 2
    /\ \A n \in 1..2 : n \in DOMAIN saved /\ saved[n] = 1

\* The run was not stopped by its environment: the frames directory could be
\* created, no frame failed allocation, rasterization or persistence, and
\* ffmpeg could be launched and waited for.
EnvironmentFailed ==
    \/ mainPc = "done" /\ outcome = "Panic" /\ ~panicked
    \/ outcome = "Err"
    \/ \E i \in DOMAIN result : result[i] \in {"NewPixmap", "RenderSVG", "SavePng"}

IsPrefix(p, q) == Len(p) <= Len(q) /\ \A k \in 1..Len(p) : p[k] = q[k]

\* C11: with resolution=100x100, framerate=10, delay=0, interval=0.1,
\* entry=0.1, sustain=0.5, fade=0.1, leave=0, a run its environment does not
\* stop ends with exactly 6 frame files persisted and the encoder invoked
\* exactly once, with framerate 10 and size 100x100.
C11_EndToEnd ==
    cfg = EndToEndConfig /\ mainPc = "done" /\ ~EnvironmentFailed =>
        /\ Cardinality(DOMAIN saved) = 6
        /\ ffmpeg.spawned = 1
        /\ ffmpeg.args[2] = "10"
        /\ ffmpeg.args[4] = "100x100"

\* C12: whatever the number of worker threads (1 or more) and whatever their
\* interleaving, the file of frame index i, once written, holds the document
\* of frame i, a function of the configuration and i alone, and after the
\* frame stage has succeeded the files are exactly those of 1..frame_length.
C12_OutputIndependentOfWorkers ==
    /\ DOMAIN png = DOMAIN saved
    /\ \A n \in DOMAIN png : png[n] = Tree(load_svg, scene(cfg, n - 1).calls)
    /\ RenderCalled => DOMAIN png = 1..r.frame_length

C12_Witness ==
    /\ outcome = "Ok"
    /\ pool > 1
    /\ \A w \in 1..2 : layout[w] # "uninit"
    /\ DOMAIN png = {1, 2}

\* C13: the document a worker gets from the scene for frame index i is the
\* same on every worker and after any history of earlier frames on it: the
\* template clone with the leaf actions of frame i; a thread's LAYOUT, once
\* loaded, stays the template.
C13_SceneFrameIndependent ==
    /\ \A w \in Workers : layout[w] \in {"uninit", load_svg}
    /\ \A w \in Workers :
         wdoc[w] # NoTree => wdoc[w] = Tree(load_svg, scene(cfg, wframe[w]).calls)
    /\ \A v, w \in Workers :
         wdoc[v] # NoTree /\ wdoc[w] # NoTree /\ wframe[v] = wframe[w]
             => wdoc[v] = wdoc[w]

\* One worker has rendered two frames, one after the other.
C13_Witness ==
    /\ pool = 1
    /\ wframe[1] = 1
    /\ result[0] = "Ok"
    /\ result[1] = "Ok"

\* C14: finished_frames never decreases and grows by one per completed
\* frame; the values printed as "current" are 1..finished_frames, each once
\* (no lost update, pairwise distinct, within 1..frame_length), and the
\* counter equals frame_length once the frame stage has succeeded.
C14_ProgressCounter ==
    /\ [](/\ reported = [v \in 1..finished_frames |-> 1]
          /\ finished_frames <= r.frame_length
          /\ finished_frames
               = Cardinality({i \in DOMAIN result : result[i] = "Ok"})
                 - Cardinality({w \in Workers : wpc[w] = "progress"})
          /\ RenderCalled => finished_frames = r.frame_length)
    /\ [][finished_frames' \in {finished_frames, finished_frames + 1}]_vars

C14_Witness ==
    /\ mainPc = "spawn"
    /\ pool > 1
    /\ finished_frames = 2
    /\ DOMAIN reported = {1, 2}

\* C18: render_frame performs scene, allocation, rasterization, persistence
\* in that order, each at most once; a failed step is the last one performed
\* and gives its own failure kind; the file is written only after all four
\* steps, and Ok is returned exactly when the file was written.
C18_RenderFrameSteps ==
    \A i \in FrameIndices :
        LET done == steps[i]
            Names == [k \in 1..Len(done) |-> done[k].step]
            FailedAt(name, kind) ==
                (\E k \in 1..Len(done) : done[k].step = name /\ ~done[k].ok)
                    <=> result[i] = kind
        IN  /\ IsPrefix(Names, StepOrder)
            /\ \A k \in 1..(Len(done) - 1) : done[k].ok
            /\ FailedAt("pixmap", "NewPixmap")
            /\ FailedAt("svg", "RenderSVG")
            /\ FailedAt("save", "SavePng")
            /\ (i + 1) \in DOMAIN saved =>
                 Names = StepOrder /\ \A k \in 1..4 : done[k].ok
            /\ result[i] = "Ok" <=> (i + 1) \in DOMAIN saved

C18_Witness ==
    /\ r.frame_length = 2
    /\ \E i, j \in FrameIndices :
         /\ result[i] = "RenderSVG"
         /\ Len(steps[i]) = 3
         /\ ~steps[i][3].ok
         /\ result[j] = "Ok"
         /\ (j + 1) \in DOMAIN saved

\* C20: in every reachable state finished_frames is at most the number of
\* frame files persisted: only a frame whose render_frame returned Ok is
\* counted, a failed frame never is.
C20_ProgressOnlyForPersisted ==
    /\ finished_frames <= Cardinality(DOMAIN saved)
    /\ Cardinality(DOMAIN reported)
         <= Cardinality({i \in DOMAIN result : result[i] = "Ok"})
    /\ \A w \in Workers : wpc[w] = "progress" => result[wframe[w]] = "Ok"

C20_Witness ==
    /\ finished_frames = 1
    /\ Cardinality(DOMAIN saved) = 1
    /\ \E i \in DOMAIN result : result[i] = "SavePng"

\* y = frame_index / framerate - delay, in Time units.
SceneY(c, frame_time) == FrameTime(c, frame_time) - Dur(c, c.delay)

\* What C19 says the timeline invokes, in program order.
StaggeredCalls(c, frame_time) ==
    LET y == SceneY(c, frame_time)
        I == Dur(c, c.interval)
        E == Dur(c, c.entry)
        Sym(name, k) ==
            IF y - k * I >= 0 THEN Obs(name, Min(y - k * I, E)) ELSE <<>>
    IN  Sym("cc", 0) \o Sym("by", 1) \o Sym("sa", 2) \o Sym("text", 3)
        \o (IF y - Dur(c, c.sustain) >= 0
            THEN Obs("fade", Min(y - Dur(c, c.sustain), Dur(c, c.fade)))
            ELSE <<>>)

\* C15: when entry > 0, the progress value time / entry handed to the effect
\* mutators lies in [0, 1], for every frame index and configuration.
C15_ProgressInUnitInterval ==
    tout.op = "scene" /\ cfg.entry > 0 =>
        \A k \in 1..Len(tout.effects) :
            /\ tout.effects[k].t.den > 0
            /\ 0 <= tout.effects[k].t.num
            /\ tout.effects[k].t.num <= tout.effects[k].t.den

\* The frame lies beyond the entry phase and the progress is clamped to 1.
C15_Witness ==
    /\ tout.op = "scene"
    /\ cfg.entry > 0
    /\ SceneY(cfg, tin.x) > Dur(cfg, cfg.entry)
    /\ Len(tout.effects) = 1
    /\ tout.effects[1].t.num = tout.effects[1].t.den

\* C16: when entry = 0, the Scene never computes time / entry with a zero
\* divisor, for any frame index.
C16_ZeroEntryGuarded ==
    tout.op = "scene" /\ cfg.entry = 0 =>
        \A k \in 1..Len(tout.effects) : tout.effects[k].t.den # 0

\* C17: wait(dt) returns Time(x - dt) and invokes no action; after any chain
\* of wait / until / during / until_during calls the Time returned is the
\* initial x minus the wait durations and the during / until_during window
\* durations, whichever actions were invoked, until adding nothing.
C17_ChainConsumes ==
    /\ tout.ret = tin.x - tout.consumed
    /\ tout.op = "wait" => tout.calls = <<>>
    /\ tout.invoked <= tout.n

C17_Witness ==
    /\ tout.n = 2
    /\ tout.op = "wait"
    /\ tout.invoked = 1
    /\ tout.consumed > tin.x
    /\ tin.x > 0

\* C19: with y = frame_index / framerate - delay, the k-th staggered symbol
\* action (cc, by, sa, text for k = 0..3) is invoked exactly when
\* y - k * interval >= 0 and observes Time(min(y - k * interval, entry)), the
\* fade action exactly when y - sustain >= 0, observing
\* Time(min(y - sustain, fade)), and nothing is invoked when y < 0.
C19_StaggeredTimeline ==
    tout.op = "scene" => tout.calls = StaggeredCalls(cfg, tin.x)

====
